---- MODULE Spec2Model ----
(***************************************************************************)
(* Scan-orchestration service (secureBackend): SAST upload handlers        *)
(* (app/main.py, app/api/v1/endpoints/scan.py), the risk scorers           *)
(* (app/core/security.py, app/main.py, inline in owasp_service.py), the    *)
(* persistence wrapper (supabase_service.py) and the DAST driver           *)
(* (OWASPService.start_scan).                                              *)
(*                                                                         *)
(* A finding is a Python dict.  It is modelled as a record with one field  *)
(* per key the code reads; the string "absent" stands for a missing key.   *)
(*   severity : top-level "severity"   (read by core/security.py)          *)
(*   extra    : extra.severity         (read by main.py, semgrep filter)   *)
(*   risk     : "risk"                 (read by owasp_service.py)          *)
(***************************************************************************)
EXTENDS Integers, Sequences, FiniteSets, TLC

\* ---------------------------------------------------------------- bounds
MaxFindings == 2      \* findings in one engine output
MaxAlerts   == 3      \* alerts returned by the control plane
MaxScored   == 5      \* length of an arbitrary list handed to the scorers
MaxVolume   == 12     \* length of a homogeneous list handed to the scorers

\* ------------------------------------------------------------ value sets
ABSENT == "absent"

Finding(s, e, r) == [severity |-> s, extra |-> e, risk |-> r]

\* Findings the static engine can print: extra.severity is the engine's
\* field, a top-level severity key is normally missing.
EngineFindings ==
    { Finding(s, e, ABSENT) : s \in {ABSENT, "warning"},
                              e \in {"ERROR", "WARNING", "INFO", ABSENT} }

\* Risk strings of a control-plane alert ("Informational" is what the
\* engine prints for its lowest level), or no risk key at all.
AlertRisks == {"High", "Medium", "Low", "Info", "Informational", ABSENT}

Alert(r) == Finding(ABSENT, ABSENT, r)

\* Dicts handed directly to the scorers.
ScoredFindings ==
    { Finding("ERROR", "ERROR", "High"),
      Finding("WARNING", "WARNING", "Medium"),
      Finding("INFO", "INFO", "Low"),
      Finding("info", "INFO", "Info"),
      Finding("CRITICAL", "CRITICAL", "Informational"),
      Finding(ABSENT, ABSENT, ABSENT) }

SeqsUpTo(S, n) == UNION { [1..k -> S] : k \in 0..n }

\* ------------------------------------------------------- python helpers
\* dict.get(key, default)
Get(v, default) == IF v = ABSENT THEN default ELSE v

\* str.upper() on the strings of the model
Upper(s) ==
    CASE s = "error"   -> "ERROR"
      [] s = "warning" -> "WARNING"
      [] s = "info"    -> "INFO"
      [] OTHER         -> s

Max(a, b) == IF a >= b THEN a ELSE b
Min(a, b) == IF a <= b THEN a ELSE b

\* round() of the exact rational num/den (num >= 0, den > 0): half to even
RoundHalfEven(num, den) ==
    LET q == num \div den
        r == num % den
    IN  IF 2 * r < den THEN q
        ELSE IF 2 * r > den THEN q + 1
        ELSE IF q % 2 = 0 THEN q ELSE q + 1

\* round() of a binary floating-point value whose exact value is num/den but
\* which was obtained from sums of 0.7 and 0.3: away from a tie the float
\* rounds as the exact value does; at an exact tie the accumulated error
\* decides, so either neighbour can come out.
RoundFloat(num, den) ==
    LET q == num \div den
        r == num % den
    IN  IF 2 * r = den THEN {q, q + 1} ELSE {RoundHalfEven(num, den)}

RECURSIVE SumSeq(_)
SumSeq(s) == IF s = <<>> THEN 0 ELSE Head(s) + SumSeq(Tail(s))

RECURSIVE SumOver(_, _)
SumOver(d, keys) ==
    IF keys = {} THEN 0
    ELSE LET k == CHOOSE x \in keys : TRUE
         IN  d[k] + SumOver(d, keys \ {k})

\* sum(d.values())
SumValues(d) == SumOver(d, DOMAIN d)

\* severities[k] = severities.get(k, 0) + 1
Incr(d, k) ==
    [ x \in (DOMAIN d) \cup {k} |->
        IF x = k THEN (IF k \in DOMAIN d THEN d[k] ELSE 0) + 1 ELSE d[x] ]

ZeroCounts == [ x \in {"ERROR", "WARNING", "INFO"} |-> 0 ]

\* ------------------------------------------------- app/core/security.py
\* risk_weights, in tenths
risk_weights_swapped(sev) ==
    CASE sev = "ERROR"   -> 3
      [] sev = "WARNING" -> 7
      [] sev = "INFO"    -> 10
      [] OTHER           -> 3

risk_weights(sev) ==
    CASE sev = "ERROR"   -> 10
      [] sev = "WARNING" -> 7
      [] sev = "INFO"    -> 3
      [] OTHER           -> 3

\* total_weight, in tenths
total_weight(vulns) ==
    SumSeq([ i \in 1..Len(vulns) |->
               risk_weights(Upper(Get(vulns[i].severity, "INFO"))) ])

\* The values security.calculate_security_score can return for vulns:
\* (1 - total_weight/max_possible_weight) * 10 is (10n - T)/n exactly.
security_calculate_security_score(vulns) ==
    LET n == Len(vulns)
        T == total_weight(vulns)
    IN  IF n = 0 THEN {10}
        ELSE { Max(0, Min(10, k)) : k \in RoundFloat(10 * n - T, n) }

\* the counting loop: one increment per finding, in list order
RECURSIVE CountInto(_, _)
CountInto(d, keys) ==
    IF keys = <<>> THEN d
    ELSE CountInto(Incr(d, Head(keys)), Tail(keys))

security_key(v) == Upper(Get(v.severity, "INFO"))

security_count_severities(vulns) ==
    CountInto(ZeroCounts, [ i \in 1..Len(vulns) |-> security_key(vulns[i]) ])

\* ----------------------------------------------------------- app/main.py
IsSevere(v) == v.extra \in {"ERROR", "WARNING"}

\* len([v for v in vulnerabilities if ... in ["ERROR", "WARNING"]])
severe_count(vulns) == Cardinality({ i \in 1..Len(vulns) : IsSevere(vulns[i]) })

main_calculate_security_score_unclamped(vulns) == 10 - severe_count(vulns)

main_calculate_security_score(vulns) == Max(0, 10 - severe_count(vulns))

main_key(v) == Get(v.extra, "INFO")

main_count_severities(vulns) ==
    CountInto(ZeroCounts, [ i \in 1..Len(vulns) |-> main_key(vulns[i]) ])

\* what subprocess.run + json.loads hand to run_semgrep
EngineRuns ==
    [ exit : {"zero", "nonzero"}, stdout : {"not_json", "null", "no_results"},
      results : {<<>>} ]
    \cup
    [ exit : {"zero", "nonzero"}, stdout : {"results"},
      results : SeqsUpTo(EngineFindings, MaxFindings) ]

Returned(fs) == [raised |-> FALSE, findings |-> fs]
Raised       == [raised |-> TRUE,  findings |-> <<>>]

\* run_semgrep with the CalledProcessError handler missing
run_semgrep_propagating(run) ==
    IF run.exit = "nonzero" THEN Raised
    ELSE IF run.stdout = "not_json" THEN Returned(<<>>)
    ELSE IF run.stdout = "null" THEN Raised
    ELSE IF run.stdout = "results" THEN Returned(SelectSeq(run.results, IsSevere))
    ELSE Returned(<<>>)

\* run_semgrep: check=True raises CalledProcessError on a non-zero exit
\* (caught, []); json.loads raises JSONDecodeError (caught, []); a parsed
\* null makes '"results" in results' raise TypeError (not caught here).
run_semgrep(run) ==
    IF run.exit = "nonzero" THEN Returned(<<>>)
    ELSE IF run.stdout = "not_json" THEN Returned(<<>>)
    ELSE IF run.stdout = "null" THEN Raised
    ELSE IF run.stdout = "results" THEN Returned(SelectSeq(run.results, IsSevere))
    ELSE Returned(<<>>)

\* ------------------------------------ app/services/semgrep_service.py
\* Not in the source tree; taken from the SAST driver's description: a
\* failed or unparseable engine run yields zero findings, and only findings
\* whose extra.severity is ERROR or WARNING are retained.
semgrep_service_run_semgrep(run) ==
    IF run.exit = "nonzero" \/ run.stdout # "results" THEN Returned(<<>>)
    ELSE Returned(SelectSeq(run.results, IsSevere))

\* ------------------------------------- app/services/owasp_service.py
\* line 116, with Low mapped one level too high
DastSeverityLowAsWarning(risk) ==
    IF risk = "High" THEN "ERROR"
    ELSE IF risk \in {"Medium", "Low"} THEN "WARNING"
    ELSE "INFO"

\* line 116: "ERROR" if High else "WARNING" if Medium else "INFO"
DastSeverity(risk) ==
    IF risk = "High" THEN "ERROR"
    ELSE IF risk = "Medium" THEN "WARNING"
    ELSE "INFO"

\* lines 108-124: the dict built for one alert; it carries extra.severity
\* and neither a top-level severity nor a risk key
dast_vulnerability(alert) == Finding(ABSENT, DastSeverity(alert.risk), ABSENT)

dast_vulnerabilities(alerts) ==
    [ i \in 1..Len(alerts) |-> dast_vulnerability(alerts[i]) ]

HasRisk(alerts, r) == Cardinality({ i \in 1..Len(alerts) : alerts[i].risk = r })

\* lines 84-88
dast_severity_count(alerts) ==
    [ x \in {"ERROR", "WARNING", "INFO"} |->
        CASE x = "ERROR"   -> HasRisk(alerts, "High")
          [] x = "WARNING" -> HasRisk(alerts, "Medium")
          [] OTHER         -> HasRisk(alerts, "Low") + HasRisk(alerts, "Info") ]

\* lines 91-102; weighted_score/total_alerts is an exact quotient of two
\* small integers, so round() is round-half-even of the exact value
dast_security_score(alerts) ==
    LET total_alerts   == Len(alerts)
        sc             == dast_severity_count(alerts)
        weighted_score == sc["ERROR"] * 3 + sc["WARNING"] * 2 + sc["INFO"]
    IN  IF total_alerts = 0 THEN 10
        ELSE Max(0, RoundHalfEven(10 * total_alerts - weighted_score, total_alerts))

\* a control-plane reply as requests.get and .json() present it
Reply(net, http, kind, status, als) ==
    [net |-> net, http |-> http, kind |-> kind, status |-> status, alerts |-> als]

ConnError == Reply("conn_error", "none", "none", "none", <<>>)

\* start-crawl / start-active-scan: the "scan" field is the handle
StartReplies ==
    {ConnError} \cup
    { Reply("ok", h, k, "none", <<>>) :
        h \in {"ok", "error"}, k \in {"not_json", "no_field", "value"} }

\* crawl-status / active-scan-status: the "status" field is the progress
PollReplies ==
    {ConnError} \cup
    { Reply("ok", h, k, "none", <<>>) :
        h \in {"ok", "error"}, k \in {"not_json", "no_field"} } \cup
    { Reply("ok", h, "value", st, <<>>) :
        h \in {"ok", "error"}, st \in {"50", "100"} }

\* list-alerts: the "alerts" field
AlertsReplies ==
    {ConnError} \cup
    { Reply("ok", h, k, "none", <<>>) :
        h \in {"ok", "error"}, k \in {"not_json", "no_field"} } \cup
    { Reply("ok", h, "value", "none", [ i \in 1..Len(rs) |-> Alert(rs[i]) ]) :
        h \in {"ok", "error"}, rs \in SeqsUpTo(AlertRisks, MaxAlerts) }

\* fetch-report: only .text is read
ReportReplies ==
    {ConnError} \cup { Reply("ok", h, "value", "none", <<>>) : h \in {"ok", "error"} }

\* a network / control-plane failure: no reply, an HTTP error status, or a
\* body without the expected field
IsFailure(reply) ==
    reply.net = "conn_error" \/ reply.http = "error" \/ reply.kind # "value"

\* requests.get raised, or (where the code calls it) raise_for_status raised
GetRaises(reply, checked) ==
    reply.net = "conn_error" \/ (checked /\ reply.http = "error")

\* .json() raises on a body that is not JSON
JsonRaises(reply) == reply.kind = "not_json"

\* .json().get(field): None when the field is missing
Field(reply) == IF reply.kind = "value" THEN reply.status ELSE "None"

\* the loop exit with the comparison weakened to "some status came back"
PollCompleteAnyStatus(status) == status # "None"

\* lines 41 and 63: if status == "100": break
PollComplete(status) == status = "100"

\* ------------------------------- persistence: supabase .insert().execute()
InsertOutcomes == {"raised", "no_record", "record"}

HttpOk(id) == [status |-> "200", scan_id |-> id]
Http500    == [status |-> "500", scan_id |-> 0]

\* supabase_service.store_scan_results: the stored record, or HTTP 500
\* (the 500 raised for an empty result.data is caught and re-raised as 500)
store_scan_results(ins, id) ==
    IF ins = "raised" THEN Raised
    ELSE IF ins = "no_record" THEN Raised
    ELSE [raised |-> FALSE, findings |-> <<>>, id |-> id]

\* scan.upload_file, lines 69-81
scan_respond(ins, id) ==
    LET stored_result == store_scan_results(ins, id)
    IN  IF stored_result.raised THEN Http500 ELSE HttpOk(stored_result.id)

\* the tail of main.upload_file with the "if not result.data" check turned
\* into a default scan_id
main_respond_lenient(ins, id) ==
    IF ins = "raised" THEN Http500
    ELSE IF ins = "no_record" THEN HttpOk(0)
    ELSE HttpOk(id)

\* main.upload_file, lines 149-166
main_respond(ins, id) ==
    IF ins = "raised" THEN Http500
    ELSE IF ins = "no_record" THEN Http500
    ELSE HttpOk(id)

\* ================================================================ state
VARIABLES
    pc,            \* position of the request being served
    handler,       \* "none", "main" (main.py), "scan" (scan.py), "dast"
    upload,        \* kind of the uploaded artifact
    temp_dir,      \* the temporary scan root: "none", "exists", "deleted"
    files,         \* files this request has written and that still exist
    engine,        \* the engine run observed by run_semgrep
    scan_results,  \* vulnerabilities, severity_count, total, score
    insert_result, \* what the insert returned
    table,         \* rows of the "sast" table
    response,      \* what the caller receives
    alerts,        \* raw alerts harvested by the DAST driver
    last_reply,    \* the last control-plane reply the driver read
    failure_seen,  \* some control-plane request of this scan failed
    findings,      \* list handed to the scorers
    scores         \* what each scorer returned for findings

vars == <<pc, handler, upload, temp_dir, files, engine, scan_results,
          insert_result, table,
          response, alerts, last_reply, failure_seen, findings, scores>>

sastVars   == <<upload, temp_dir, files, engine, insert_result, table>>
dastVars   == <<alerts, last_reply, failure_seen>>
scorerVars == <<findings, scores>>

Result(vs, sc, total, score) ==
    [vulnerabilities |-> vs, severity_count |-> sc,
     total_vulnerabilities |-> total, security_score |-> score]

NoResult   == Result(<<>>, <<>>, 0, 0)
NoRun      == [exit |-> "none", stdout |-> "none", results |-> <<>>]
NoReply    == Reply("none", "none", "none", "none", <<>>)
NoResponse == [status |-> "none", scan_id |-> 0]

\* every scorer applied to one list
ScoresOf(fs) ==
    { [security |-> s,
       main     |-> main_calculate_security_score(fs),
       dast     |-> dast_security_score(fs)] :
      s \in security_calculate_security_score(fs) }

Init ==
    /\ pc = "idle"
    /\ handler = "none"
    /\ upload = "none"
    /\ temp_dir = "none"
    /\ files = {}
    /\ engine = NoRun
    /\ scan_results = NoResult
    /\ insert_result = "none"
    /\ table = <<>>
    /\ response = NoResponse
    /\ alerts = <<>>
    /\ last_reply = NoReply
    /\ failure_seen = FALSE
    /\ findings = <<>>
    /\ scores \in ScoresOf(findings)

\* ------------------------------------------------ the temporary scan root
\* the upload as process_upload sees it: a source file, an archive, an
\* archive that does not unpack, a filename open() cannot create (it names
\* a missing sub-directory), a filename that is an absolute path
UploadKinds == {"file", "zip", "bad_zip", "unsaveable", "absolute"}

\* os.path.join(temp_dir, file.filename): a filename that is an absolute
\* path replaces temp_dir, so the upload is written outside the root
join_path(kind) == IF kind = "absolute" THEN "outside/upload" ELSE "root/upload"

InRoot(path) == path \in {"root/upload", "root/extracted"}

\* a scan root that is removed only when the block is left normally
with_exit_on_return_only(raised) == IF raised THEN "exists" ELSE "deleted"

\* leaving "with tempfile.TemporaryDirectory() as temp_dir": the directory
\* is removed whether the block returns or raises
with_exit(raised) == "deleted"

\* the removal takes everything under the root with it
FilesAfter(dir, fs) == IF dir = "deleted" THEN { f \in fs : ~InRoot(f) } ELSE fs

\* -------------------------------------------------------- SAST upload
\* POST /upload reaches upload_file of main.py or of scan.py
Upload(h, kind) ==
    /\ pc = "idle"
    /\ handler' = h
    /\ upload' = kind
    /\ pc' = "process_upload"
    /\ UNCHANGED <<temp_dir, files, engine, scan_results, insert_result, table,
                   response>>
    /\ UNCHANGED dastVars
    /\ UNCHANGED scorerVars

\* process_upload (main.py 103-108, scan.py 21-25): create the scan root and
\* save the upload into it; open() raises when the path cannot be created
SaveUpload ==
    /\ pc = "process_upload"
    /\ IF upload = "unsaveable"
       THEN /\ temp_dir' = with_exit(TRUE)
            /\ files' = FilesAfter(temp_dir', files)
            /\ response' = Http500
            /\ pc' = "responded"
       ELSE /\ temp_dir' = "exists"
            /\ files' = files \cup {join_path(upload)}
            /\ pc' = "saved"
            /\ UNCHANGED response
    /\ UNCHANGED <<handler, upload, engine, scan_results, insert_result, table>>
    /\ UNCHANGED dastVars
    /\ UNCHANGED scorerVars

\* process_upload and the metrics (main.py 98-135, scan.py 17-51): a broken
\* archive makes unpack_archive raise; otherwise the engine runs
ProcessUploadFails ==
    /\ pc = "saved"
    /\ upload = "bad_zip"
    /\ temp_dir' = with_exit(TRUE)
    /\ files' = FilesAfter(temp_dir', files)
    /\ response' = Http500
    /\ pc' = "responded"
    /\ UNCHANGED <<handler, upload, engine, scan_results, insert_result, table>>
    /\ UNCHANGED dastVars
    /\ UNCHANGED scorerVars

\* main.py 111-118, scan.py 27-32: extract an archive into the root, then
\* start the engine process on the root or on the saved file
StartEngine ==
    /\ pc = "saved"
    /\ upload # "bad_zip"
    /\ files' = IF upload = "zip" THEN files \cup {"root/extracted"} ELSE files
    /\ pc' = "running"
    /\ UNCHANGED <<handler, upload, temp_dir, engine, scan_results,
                   insert_result, table, response>>
    /\ UNCHANGED dastVars
    /\ UNCHANGED scorerVars

\* the engine process has ended: run_semgrep returns or raises, the with
\* block is left, and upload_file computes the metrics
ProcessUploadMain(run) ==
    /\ pc = "running"
    /\ handler = "main"
    /\ upload # "bad_zip"
    /\ engine' = run
    /\ LET r == run_semgrep(run)
           vulnerabilities == r.findings
       IN  /\ temp_dir' = with_exit(r.raised)
           /\ files' = FilesAfter(temp_dir', files)
           /\ IF r.raised
              THEN /\ response' = Http500
                   /\ pc' = "responded"
                   /\ UNCHANGED scan_results
              ELSE /\ scan_results' =
                         Result(vulnerabilities,
                                main_count_severities(vulnerabilities),
                                Len(vulnerabilities),
                                main_calculate_security_score(vulnerabilities))
                   /\ pc' = "insert"
                   /\ UNCHANGED response
    /\ UNCHANGED <<handler, upload, insert_result, table>>
    /\ UNCHANGED dastVars
    /\ UNCHANGED scorerVars

\* the engine process has ended: the metrics are computed inside the with
\* block, which is then left by the return
ProcessUploadScan(run) ==
    /\ pc = "running"
    /\ handler = "scan"
    /\ upload # "bad_zip"
    /\ engine' = run
    /\ LET r == semgrep_service_run_semgrep(run)
           vulnerabilities == r.findings
       IN  \E score \in security_calculate_security_score(vulnerabilities) :
             scan_results' =
                 Result(vulnerabilities,
                        security_count_severities(vulnerabilities),
                        Len(vulnerabilities),
                        score)
    /\ temp_dir' = with_exit(FALSE)
    /\ files' = FilesAfter(temp_dir', files)
    /\ pc' = "insert"
    /\ UNCHANGED <<handler, upload, insert_result, table, response>>
    /\ UNCHANGED dastVars
    /\ UNCHANGED scorerVars

\* supabase.table("sast").insert(data).execute() and the response
Insert(ins) ==
    /\ pc = "insert"
    /\ insert_result' = ins
    /\ table' = IF ins = "record" THEN Append(table, scan_results) ELSE table
    /\ response' = IF handler = "main"
                   THEN main_respond(ins, Len(table) + 1)
                   ELSE scan_respond(ins, Len(table) + 1)
    /\ pc' = "responded"
    /\ UNCHANGED <<handler, upload, temp_dir, files, engine, scan_results>>
    /\ UNCHANGED dastVars
    /\ UNCHANGED scorerVars

\* ------------------------------------------- OWASPService.start_scan
\* the except clause of lines 144-146: one wrapped exception
DriverRaises ==
    /\ pc' = "failed"
    /\ response' = [status |-> "raised", scan_id |-> 0]
    /\ UNCHANGED <<scan_results, alerts>>

Observe(reply) ==
    /\ last_reply' = reply
    /\ failure_seen' = (failure_seen \/ IsFailure(reply))

\* lines 25-31: start the crawl
StartScan(reply) ==
    /\ pc = "idle"
    /\ handler' = "dast"
    /\ Observe(reply)
    /\ IF GetRaises(reply, TRUE) \/ JsonRaises(reply)
       THEN DriverRaises
       ELSE /\ pc' = "spider_poll"
            /\ UNCHANGED <<scan_results, alerts, response>>
    /\ UNCHANGED sastVars
    /\ UNCHANGED scorerVars

\* lines 34-43: one iteration of the crawl-status loop
SpiderPoll(reply) ==
    /\ pc = "spider_poll"
    /\ Observe(reply)
    /\ IF GetRaises(reply, FALSE) \/ JsonRaises(reply)
       THEN DriverRaises
       ELSE /\ pc' = IF PollComplete(Field(reply)) THEN "ascan_start"
                     ELSE "spider_poll"
            /\ UNCHANGED <<scan_results, alerts, response>>
    /\ UNCHANGED handler
    /\ UNCHANGED sastVars
    /\ UNCHANGED scorerVars

\* lines 47-53: start the active scan
StartActiveScan(reply) ==
    /\ pc = "ascan_start"
    /\ Observe(reply)
    /\ IF GetRaises(reply, TRUE) \/ JsonRaises(reply)
       THEN DriverRaises
       ELSE /\ pc' = "ascan_poll"
            /\ UNCHANGED <<scan_results, alerts, response>>
    /\ UNCHANGED handler
    /\ UNCHANGED sastVars
    /\ UNCHANGED scorerVars

\* lines 56-65: one iteration of the active-scan-status loop
ActivePoll(reply) ==
    /\ pc = "ascan_poll"
    /\ Observe(reply)
    /\ IF GetRaises(reply, FALSE) \/ JsonRaises(reply)
       THEN DriverRaises
       ELSE /\ pc' = IF PollComplete(Field(reply)) THEN "alerts"
                     ELSE "ascan_poll"
            /\ UNCHANGED <<scan_results, alerts, response>>
    /\ UNCHANGED handler
    /\ UNCHANGED sastVars
    /\ UNCHANGED scorerVars

\* lines 68-73: alerts = alerts_response.json().get("alerts", [])
FetchAlerts(reply) ==
    /\ pc = "alerts"
    /\ Observe(reply)
    /\ IF GetRaises(reply, FALSE) \/ JsonRaises(reply)
       THEN DriverRaises
       ELSE /\ alerts' = IF reply.kind = "value" THEN reply.alerts ELSE <<>>
            /\ pc' = "report"
            /\ UNCHANGED <<scan_results, response>>
    /\ UNCHANGED handler
    /\ UNCHANGED sastVars
    /\ UNCHANGED scorerVars

\* lines 76-142: fetch the report, then count, score, format and return
FetchReport(reply) ==
    /\ pc = "report"
    /\ Observe(reply)
    /\ IF GetRaises(reply, FALSE)
       THEN DriverRaises
       ELSE /\ scan_results' =
                  Result(dast_vulnerabilities(alerts),
                         dast_severity_count(alerts),
                         Len(alerts),
                         dast_security_score(alerts))
            /\ response' = [status |-> "completed", scan_id |-> 0]
            /\ pc' = "done"
            /\ UNCHANGED alerts
    /\ UNCHANGED handler
    /\ UNCHANGED sastVars
    /\ UNCHANGED scorerVars

Next ==
    \/ \E h \in {"main", "scan"}, kind \in UploadKinds : Upload(h, kind)
    \/ SaveUpload
    \/ ProcessUploadFails
    \/ StartEngine
    \/ \E run \in EngineRuns : ProcessUploadMain(run)
    \/ \E run \in EngineRuns : ProcessUploadScan(run)
    \/ \E ins \in InsertOutcomes : Insert(ins)
    \/ \E reply \in StartReplies : StartScan(reply)
    \/ \E reply \in PollReplies : SpiderPoll(reply)
    \/ \E reply \in StartReplies : StartActiveScan(reply)
    \/ \E reply \in PollReplies : ActivePoll(reply)
    \/ \E reply \in AlertsReplies : FetchAlerts(reply)
    \/ \E reply \in ReportReplies : FetchReport(reply)

Spec == Init /\ [][Next]_vars

\* ------------------------------------------------- the scorers alone
\* One more dict is appended to the list and every scorer is applied to it.
\* Lists longer than MaxScored are grown only from copies of one dict.
AddFinding(f) ==
    /\ \/ Len(findings) < MaxScored
       \/ /\ Len(findings) < MaxVolume
          /\ \A i \in 1..Len(findings) : findings[i] = f
    /\ findings' = Append(findings, f)
    /\ scores' \in ScoresOf(findings')
    /\ UNCHANGED <<pc, handler, response, scan_results>>
    /\ UNCHANGED sastVars
    /\ UNCHANGED dastVars

NextScorer == \E f \in ScoredFindings : AddFinding(f)

SpecScorer == Init /\ [][NextScorer]_vars

\* =============================================================== claims
ResultProduced == scan_results # NoResult

\* C1: on every result-producing path the values of the returned
\* severity_count add up to the returned total_vulnerabilities.
C1_SumEqualsTotal ==
    ResultProduced =>
        SumValues(scan_results.severity_count) = scan_results.total_vulnerabilities

\* C2: every scorer returns an integer in [0,10], and 10 for the empty list.
C2_ScoreRange ==
    /\ scores.security \in 0..10
    /\ scores.main \in 0..10
    /\ scores.dast \in 0..10
    /\ findings = <<>> =>
         scores.security = 10 /\ scores.main = 10 /\ scores.dast = 10

C2_Witness ==
    /\ Len(findings) > 10
    /\ \A i \in 1..Len(findings) : findings[i] = Finding("ERROR", "ERROR", "High")
    /\ scores.main = 0
    /\ scores.security = 0

Rank(sev) == CASE sev = "ERROR" -> 3 [] sev = "WARNING" -> 2 [] OTHER -> 1

Canonical(f) == f.severity \in {"ERROR", "WARNING", "INFO"}

\* C3: appending to a list over {ERROR, WARNING, INFO} a finding at least
\* as severe as every finding in it never raises the score of
\* security.calculate_security_score.
C3_Monotone ==
    [][ \A f \in ScoredFindings :
          ( /\ findings' = Append(findings, f)
            /\ Canonical(f)
            /\ \A i \in 1..Len(findings) :
                 Canonical(findings[i]) /\
                 Rank(f.severity) >= Rank(findings[i].severity) )
          => scores'.security <= scores.security ]_vars

C3_Witness ==
    /\ Len(findings) = 3
    /\ findings[1].severity = "INFO"
    /\ findings[2].severity = "WARNING"
    /\ findings[3].severity = "ERROR"
    /\ scores.security < 5

\* the same finding with its normalized severity where each SAST scorer
\* reads it
Normalized(vs) ==
    [ i \in 1..Len(vs) |-> Finding(vs[i].extra, vs[i].extra, ABSENT) ]

\* C4: the score the DAST path returns equals the score the SAST scorers
\* give for the same findings with their normalized severities.
C4_OneFormula ==
    (handler = "dast" /\ pc = "done") =>
        LET vs == Normalized(scan_results.vulnerabilities)
        IN  /\ scan_results.security_score = main_calculate_security_score(vs)
            /\ \A s \in security_calculate_security_score(vs) :
                 scan_results.security_score = s

\* C5: on the SAST upload path the returned severity_count["INFO"] is 0.
C5_InfoZero ==
    (handler \in {"main", "scan"} /\ ResultProduced) =>
        scan_results.severity_count["INFO"] = 0

\* C6: once any control-plane request of a scan has failed (no reply, an
\* HTTP error status, or a body without the expected field) the driver is
\* aborted: it is neither polling nor harvesting nor completed.
C6_FailureAborts == failure_seen => pc = "failed"

\* C7: the vulnerability built for an alert carries ERROR for High, WARNING
\* for Medium, INFO for Low and Info, and INFO for a missing or unrecognized
\* risk; every alert gets one.
C7_MappingTotal ==
    (handler = "dast" /\ pc = "done") =>
        /\ Len(scan_results.vulnerabilities) = Len(alerts)
        /\ \A i \in 1..Len(alerts) :
             scan_results.vulnerabilities[i].extra =
                 CASE alerts[i].risk = "High"   -> "ERROR"
                   [] alerts[i].risk = "Medium" -> "WARNING"
                   [] alerts[i].risk = "Low"    -> "INFO"
                   [] alerts[i].risk = "Info"   -> "INFO"
                   [] OTHER                     -> "INFO"

C7_Witness ==
    /\ handler = "dast" /\ pc = "done"
    /\ Len(alerts) = 3
    /\ alerts[1].risk = ABSENT
    /\ alerts[2].risk = "Low"
    /\ alerts[3].risk = "High"
    /\ scan_results.vulnerabilities[1].extra = "INFO"

\* C8: an insert that returns no record ends in HTTP 500, and a success
\* response always carries the id of a stored record.
C8_NoRecordIs500 ==
    /\ insert_result = "no_record" => response.status = "500"
    /\ response.status = "200" =>
         insert_result = "record" /\ response.scan_id \in 1..Len(table)

C8_Witness ==
    /\ handler = "scan"
    /\ insert_result = "no_record"
    /\ response.status = "500"

DastPhase ==
    CASE pc = "idle"                          -> "IDLE"
      [] pc \in {"spider_poll", "ascan_start"} -> "SPIDERING"
      [] pc = "ascan_poll"                    -> "ACTIVE_SCANNING"
      [] pc \in {"alerts", "report"}          -> "HARVESTING"
      [] pc = "done"                          -> "DONE"
      [] pc = "failed"                        -> "FAILED"
      [] OTHER                                -> "SAST"

PhaseSteps ==
    { <<"IDLE", "SPIDERING">>, <<"SPIDERING", "ACTIVE_SCANNING">>,
      <<"ACTIVE_SCANNING", "HARVESTING">>, <<"HARVESTING", "DONE">>,
      <<"IDLE", "FAILED">>, <<"SPIDERING", "FAILED">>,
      <<"ACTIVE_SCANNING", "FAILED">>, <<"HARVESTING", "FAILED">>,
      <<"IDLE", "SAST">> }

\* C9: the driver moves only IDLE -> SPIDERING -> ACTIVE_SCANNING ->
\* HARVESTING -> DONE (or to FAILED); it leaves the crawl loop only on a
\* crawl-status reply of "100" and the active-scan loop only on an
\* active-scan-status reply of "100".
C9_PhaseOrder ==
    [][ /\ DastPhase' # DastPhase => <<DastPhase, DastPhase'>> \in PhaseSteps
        /\ (pc' = "ascan_start" /\ pc # "ascan_start") =>
               pc = "spider_poll" /\ last_reply'.status = "100"
        /\ (pc' = "ascan_poll" /\ pc # "ascan_poll") => pc = "ascan_start"
        /\ (pc' = "alerts" /\ pc # "alerts") =>
               pc = "ascan_poll" /\ last_reply'.status = "100"
        /\ (pc' = "report" /\ pc # "report") => pc = "alerts"
        /\ (pc' = "done" /\ pc # "done") => pc = "report" ]_vars

C9_Witness == handler = "dast" /\ pc = "done"

EngineFailed == engine.exit = "nonzero" \/ engine.stdout = "not_json"

\* C10: after a non-zero engine exit or unparseable engine output the
\* upload of main.py goes on to the insert with no vulnerabilities, counts
\* {ERROR:0, WARNING:0, INFO:0}, total 0 and score 10; the only way it fails
\* is the insert, and a stored record gives a success response.
C10_EngineFailureIsEmptyResult ==
    (handler = "main" /\ EngineFailed) =>
        /\ pc \in {"insert", "responded"}
        /\ scan_results.vulnerabilities = <<>>
        /\ scan_results.severity_count =
               [ x \in {"ERROR", "WARNING", "INFO"} |-> 0 ]
        /\ scan_results.total_vulnerabilities = 0
        /\ scan_results.security_score = 10
        /\ pc = "responded" => insert_result # "none"
        /\ insert_result = "record" =>
               response.status = "200" /\ table = <<scan_results>>

C10_Witness ==
    /\ handler = "main"
    /\ engine.exit = "nonzero"
    /\ engine.results # <<>>
    /\ insert_result = "record"
    /\ response.status = "200"

====
